---- MODULE Spec2Model ----
(***************************************************************************)
(* The setuid update launchers of landscape-client:                        *)
(*   apt-update            src/apt-update/apt-update.c                     *)
(*   smart-update (2009)   src/unnamed/part_000, lines 128-248             *)
(*   smart-update (2004)   src/unnamed/part_000, lines 1-126               *)
(* Each is one main(): look up the passwd record of the effective uid,     *)
(* build envp/argv for the target, change credentials, close descriptors,  *)
(* reset umask and cwd, execve.  One action per statement of main; the     *)
(* outcome of every fallible call is a nondeterministic choice.            *)
(*                                                                         *)
(* C arrays are functions on 0..n-1 so that the source's indices are kept. *)
(* C strings are TLA+ strings; Ch(s, i) is the i-th character (from 1).    *)
(***************************************************************************)
EXTENDS Integers, Sequences, FiniteSets, TLC

VARIABLES
    prog,          \* which launcher binary runs
    argv,          \* main's argv, 0-based; argc is its length
    environ,       \* ambient environment: sequence of [name, value]
    passwd,        \* identity database: sequence of passwd records
    nofile_hard,   \* hard RLIMIT_NOFILE set by the caller (rlim_t)
    cred,          \* [ruid, euid, rgid, egid, groups] of the process
    fds,           \* set of open descriptor numbers
    mask,          \* file creation mask
    cwd,           \* working directory
    pwd,           \* struct passwd *pwd: <<>> is NULL, <<r>> points to r
    target_envp,   \* apt_envp / smart_envp
    target_argv,   \* apt_argv / smart_argv
    proxy_arg,     \* int proxy_arg (apt-update)
    interval,      \* long interval (smart-update)
    rlp,           \* struct rlimit rlp
    file_max,      \* int file_max
    file,          \* int file / int fd: the close loop's counter
    pc,            \* the statement main is at
    status,        \* exit status once pc = "exit"
    trace,         \* history: the fallible calls made so far, with outcome
    start,         \* history: cred, fds, mask, cwd at process start
    prev           \* history: the previous run of the launcher (two-run spec)

vars == <<prog, argv, environ, passwd, nofile_hard, cred, fds, mask, cwd,
          pwd, target_envp, target_argv, proxy_arg, interval, rlp, file_max,
          file, pc, status, trace, start, prev>>

---------------------------------------------------------------------------
(* The three programs *)

APT == "apt-update"
SMART == "smart-update"
SMART_OLD == "smart-update-2004"
Progs == {APT, SMART, SMART_OLD}
SmartProgs == {SMART, SMART_OLD}

NULL == "<NULL>"

\* A C array literal as a 0-based function.
Arr(s) == [i \in 0..(Len(s) - 1) |-> s[i + 1]]

\* The strings of a NULL-terminated array: the entries before the first NULL.
RECURSIVE UpToNull(_, _)
UpToNull(a, i) ==
    IF i \notin DOMAIN a \/ a[i] = NULL THEN <<>>
    ELSE <<a[i]>> \o UpToNull(a, i + 1)

---------------------------------------------------------------------------
(* long: 64 bits.  A value is a sign and a canonical decimal magnitude     *)
(* (no leading zero, zero is <<0>> and is not negative), since 2^63 does   *)
(* not fit the model checker's integers.                                   *)

LongZero == [neg |-> FALSE, mag |-> <<0>>]
LONG_MAX == [neg |-> FALSE, mag |-> <<9,2,2,3,3,7,2,0,3,6,8,5,4,7,7,5,8,0,7>>]
LONG_MIN == [neg |-> TRUE,  mag |-> <<9,2,2,3,3,7,2,0,3,6,8,5,4,7,7,5,8,0,8>>]

RECURSIVE StripZeros(_)
StripZeros(d) ==
    IF Len(d) > 1 /\ d[1] = 0 THEN StripZeros(Tail(d)) ELSE d

RECURSIVE LexGreater(_, _)
LexGreater(a, b) ==
    IF a = <<>> THEN FALSE
    ELSE IF a[1] # b[1] THEN a[1] > b[1]
    ELSE LexGreater(Tail(a), Tail(b))

\* a > b for canonical magnitudes
MagGreater(a, b) ==
    IF Len(a) # Len(b) THEN Len(a) > Len(b) ELSE LexGreater(a, b)

DigitChars == <<"0", "1", "2", "3", "4", "5", "6", "7", "8", "9">>
IsDigit(c) == \E i \in 1..10 : DigitChars[i] = c
DigitVal(c) == (CHOOSE i \in 1..10 : DigitChars[i] = c) - 1
IsSpace(c) == c \in {" ", "\t", "\n", "\r", "\f"}
Ch(s, i) == SubSeq(s, i, i)

RECURSIVE SkipSpace(_, _)
SkipSpace(s, i) ==
    IF i <= Len(s) /\ IsSpace(Ch(s, i)) THEN SkipSpace(s, i + 1) ELSE i

RECURSIVE SkipDigits(_, _)
SkipDigits(s, i) ==
    IF i <= Len(s) /\ IsDigit(Ch(s, i)) THEN SkipDigits(s, i + 1) ELSE i

\* Mutation of strtol: the digits are taken as they are, however many
strtolUnbounded(nptr) ==
    LET i0 == SkipSpace(nptr, 1)
        signed == i0 <= Len(nptr) /\ Ch(nptr, i0) \in {"+", "-"}
        neg == signed /\ Ch(nptr, i0) = "-"
        i1 == IF signed THEN i0 + 1 ELSE i0
        i2 == SkipDigits(nptr, i1)
        m == StripZeros([k \in 1..(i2 - i1) |-> DigitVal(Ch(nptr, i1 + k - 1))])
    IN  IF i2 = i1 THEN [value |-> LongZero, end |-> 0]
        ELSE [value |-> [neg |-> neg /\ m # <<0>>, mag |-> m], end |-> i2 - 1]

\* strtol(nptr, &end, 10): leading white space, an optional sign, decimal
\* digits.  No digit: 0 and end = nptr (offset 0).  Out of range: LONG_MAX or
\* LONG_MIN, end after the digits.  end is the offset of *end from nptr.
strtol(nptr) ==
    LET i0 == SkipSpace(nptr, 1)
        signed == i0 <= Len(nptr) /\ Ch(nptr, i0) \in {"+", "-"}
        neg == signed /\ Ch(nptr, i0) = "-"
        i1 == IF signed THEN i0 + 1 ELSE i0
        i2 == SkipDigits(nptr, i1)
        m == StripZeros([k \in 1..(i2 - i1) |-> DigitVal(Ch(nptr, i1 + k - 1))])
    IN  IF i2 = i1 THEN [value |-> LongZero, end |-> 0]
        ELSE [value |-> IF ~neg /\ MagGreater(m, LONG_MAX.mag) THEN LONG_MAX
                        ELSE IF neg /\ MagGreater(m, LONG_MIN.mag) THEN LONG_MIN
                        ELSE [neg |-> neg /\ m # <<0>>, mag |-> m],
              end |-> i2 - 1]

RECURSIVE DigitsToStr(_)
DigitsToStr(d) ==
    IF d = <<>> THEN "" ELSE DigitChars[d[1] + 1] \o DigitsToStr(Tail(d))

\* Mutation of FormatLong: %lu of the magnitude, the sign is lost
FormatLongUnsigned(v) == DigitsToStr(v.mag)

\* printf's %ld
FormatLong(v) == (IF v.neg THEN "-" ELSE "") \o DigitsToStr(v.mag)

---------------------------------------------------------------------------
(* rlim_t: unsigned 64 bits, as four 16-bit limbs, most significant first. *)

RLIM_INFINITY == <<65535, 65535, 65535, 65535>>
Rlim(n) == <<0, 0, n \div 65536, n % 65536>>

\* r > n, for an int n >= 0 (compared limb by limb)
RlimAbove(r, n) ==
    \/ r[1] # 0
    \/ r[2] # 0
    \/ r[3] > n \div 65536
    \/ (r[3] = n \div 65536 /\ r[4] > n % 65536)

\* The conversion of rlim_t to int: the low 32 bits, two's complement.
RlimToInt(r) ==
    IF r[3] >= 32768 THEN (r[3] - 65536) * 65536 + r[4]
    ELSE r[3] * 65536 + r[4]

min(a, b) == IF a < b THEN a ELSE b

---------------------------------------------------------------------------
(* Inputs: what the caller and the system hand to the process *)

\* Bounds of the enumerated inputs
MaxExtraFds == 2
MaxHostileVars == 2

RootRec == [pw_name |-> "root", pw_uid |-> 0, pw_gid |-> 0, pw_dir |-> "/root"]
LandscapeRec ==
    [pw_name |-> "landscape", pw_uid |-> 1001, pw_gid |-> 1001,
     pw_dir |-> "/var/lib/landscape"]
AdminRec == [pw_name |-> "admin", pw_uid |-> 0, pw_gid |-> 27, pw_dir |-> "/home/admin"]

PasswdDBs == {<<RootRec, LandscapeRec>>, <<LandscapeRec>>, <<AdminRec, RootRec>>}

\* Installed: setuid root, started by the landscape user (postinst: 4754 root landscape)
InstalledCred ==
    [ruid |-> 1001, euid |-> 0, rgid |-> 1001, egid |-> 1001, groups |-> {4, 1001}]
RootCred == [ruid |-> 0, euid |-> 0, rgid |-> 0, egid |-> 0, groups |-> {0}]
UserCred ==
    [ruid |-> 1001, euid |-> 1001, rgid |-> 1001, egid |-> 1001, groups |-> {4, 1001}]
StartCreds == {InstalledCred, RootCred, UserCred}

ARGV0 == "launcher"
AFTER == "--after"

AfterValues ==
    { "", "0", "300", "+5", "-7", "007", " 5", "12abc", "abc", "-", "-0", "0x",
      "99999999999999999999", "-99999999999999999999", "9223372036854775807" }

CommandLines ==
    { <<ARGV0>>, <<ARGV0, AFTER>>, <<ARGV0, "300">>,
      <<ARGV0, "--before", "300">>, <<ARGV0, "300", AFTER>>,
      <<ARGV0, AFTER, "300", "300">> }
    \cup { <<ARGV0, AFTER, v>> : v \in AfterValues }

HostileVars ==
    << [name |-> "PATH", value |-> "/tmp/evil"],
       [name |-> "LD_PRELOAD", value |-> "/tmp/evil.so"],
       [name |-> "HOME", value |-> "/tmp/evil"] >>
HttpChoices ==
    { <<>>, <<[name |-> "http_proxy", value |-> ""]>>,
      <<[name |-> "http_proxy", value |-> "http://proxy:3128"]>> }
HttpsChoices ==
    { <<>>, <<[name |-> "https_proxy", value |-> ""]>>,
      <<[name |-> "https_proxy", value |-> "https://proxy:3129"]>> }
HostileChoices ==
    { SelectSeq(HostileVars, LAMBDA e : e.name \in S) :
        S \in { T \in SUBSET {"PATH", "LD_PRELOAD", "HOME"} :
                  Cardinality(T) <= MaxHostileVars } }
\* An environment that names another account
LoginEnv ==
    << [name |-> "USER", value |-> "attacker"],
       [name |-> "LOGNAME", value |-> "attacker"],
       [name |-> "HOME", value |-> "/home/attacker"] >>
Environs ==
    { h \o a \o b : h \in HostileChoices, a \in HttpChoices, b \in HttpsChoices }
    \cup {LoginEnv}

FdCandidates == {3, 5, 4095, 4096, 5000}
StdTables == { {0, 1, 2}, {1, 2} }
FdTables ==
    { s \cup x : s \in StdTables,
                 x \in { y \in SUBSET FdCandidates : Cardinality(y) <= MaxExtraFds } }
FewFdTables == { {0, 1, 2}, {0, 1, 2, 3, 4095, 4096}, {0, 1, 2, 5000} }

\* Hard limits that make a short loop, and hard limits that make a long one
SmallLimits == { Rlim(5), Rlim(6), Rlim(8) }
BigLimits == { RLIM_INFINITY, Rlim(1048576), Rlim(4097), Rlim(4096), Rlim(1024) }

Masks == {0, 63}
Dirs == {"/", "/home/attacker"}

DefaultIn ==
    [ argv |-> Arr(<<ARGV0>>), environ |-> <<>>,
      passwd |-> <<RootRec, LandscapeRec>>, nofile_hard |-> Rlim(6),
      cred |-> InstalledCred, fds |-> {0, 1, 2, 3, 5}, mask |-> 0,
      cwd |-> "/home/attacker" ]

\* The identity varies together with the command line and with the
\* environment; the descriptor table with the limit; the mask with the
\* directory.
SmallInputs ==
    { [DefaultIn EXCEPT !.cred = c, !.passwd = db, !.argv = Arr(cl)] :
        c \in StartCreds, db \in PasswdDBs, cl \in CommandLines }
    \cup { [DefaultIn EXCEPT !.cred = c, !.passwd = db, !.environ = e] :
             c \in StartCreds, db \in PasswdDBs, e \in Environs }
    \cup { [DefaultIn EXCEPT !.fds = f, !.nofile_hard = l] :
             f \in FdTables, l \in SmallLimits }
    \cup { [DefaultIn EXCEPT !.mask = m, !.cwd = d] : m \in Masks, d \in Dirs }
BigInputs ==
    { [DefaultIn EXCEPT !.fds = f, !.nofile_hard = l] :
        f \in FewFdTables, l \in BigLimits }
Inputs == SmallInputs \cup BigInputs

\* The inputs of the two-run specification: one dimension at a time
TwoRunInputs ==
    { [DefaultIn EXCEPT !.cred = c, !.passwd = db] :
        c \in StartCreds, db \in PasswdDBs }
    \cup { [DefaultIn EXCEPT !.argv = Arr(cl)] : cl \in CommandLines }
    \cup { [DefaultIn EXCEPT !.environ = e] : e \in Environs }
    \cup { [DefaultIn EXCEPT !.mask = m, !.cwd = d] : m \in Masks, d \in Dirs }

---------------------------------------------------------------------------
(* The state at the first statement of main *)

\* char *apt_argv[] / char *smart_argv[]
InitArgv(p) ==
    IF p = APT THEN Arr(<<"/usr/bin/apt-get", "-q", "update", NULL>>)
    ELSE Arr(<<"/usr/share/smart/smart", "update", NULL, NULL>>)

\* char *apt_envp[] / char *smart_envp[]
InitEnvp(p) ==
    IF p = APT THEN Arr(<<"PATH=/bin:/usr/bin", NULL, NULL, NULL, NULL>>)
    ELSE Arr(<<"PATH=/bin:/usr/bin", NULL, NULL>>)

\* The value of every variable at the first statement of main
StartOf(p, in) ==
    [ prog |-> p, argv |-> in.argv, environ |-> in.environ,
      passwd |-> in.passwd, nofile_hard |-> in.nofile_hard, cred |-> in.cred,
      fds |-> in.fds, mask |-> in.mask, cwd |-> in.cwd,
      pwd |-> <<>>, target_envp |-> InitEnvp(p), target_argv |-> InitArgv(p),
      proxy_arg |-> 0, interval |-> LongZero, rlp |-> [rlim_max |-> Rlim(0)],
      file_max |-> 0, file |-> 0,
      pc |-> "getpwuid", status |-> -1, trace |-> <<>>,
      start |-> [cred |-> in.cred, fds |-> in.fds, mask |-> in.mask,
                 cwd |-> in.cwd] ]

Launched(s) ==
    /\ prog = s.prog
    /\ argv = s.argv
    /\ environ = s.environ
    /\ passwd = s.passwd
    /\ nofile_hard = s.nofile_hard
    /\ cred = s.cred
    /\ fds = s.fds
    /\ mask = s.mask
    /\ cwd = s.cwd
    /\ pwd = s.pwd
    /\ target_envp = s.target_envp
    /\ target_argv = s.target_argv
    /\ proxy_arg = s.proxy_arg
    /\ interval = s.interval
    /\ rlp = s.rlp
    /\ file_max = s.file_max
    /\ file = s.file
    /\ pc = s.pc
    /\ status = s.status
    /\ trace = s.trace
    /\ start = s.start

NoPrev == <<>>

Init == \E p \in Progs, in \in Inputs : Launched(StartOf(p, in)) /\ prev = NoPrev

---------------------------------------------------------------------------
(* Library and system calls as the launchers use them *)

\* getpwuid(uid): the first record of the database with that uid, or NULL
getpwuid(db, uid) ==
    LET hits == { i \in DOMAIN db : db[i].pw_uid = uid }
    IN  IF hits = {} THEN <<>>
        ELSE <<db[CHOOSE i \in hits : \A j \in hits : i <= j]>>

\* getenv(name): the value of the first entry of that name, or NULL
getenv(env, name) ==
    LET hits == { i \in DOMAIN env : env[i].name = name }
    IN  IF hits = {} THEN NULL
        ELSE env[CHOOSE i \in hits : \A j \in hits : i <= j].value

\* The ceiling of the close loop
FileCeiling == 4096

\* umask(S_IWGRP | S_IWOTH)
S_IWGRP == 16
S_IWOTH == 2

---------------------------------------------------------------------------
(* The statements of each main, in source order *)

\* Mutation of Order: the credentials are changed right after the lookup
OrderCredentialsFirst(p) ==
    << "getpwuid", "setgroups", "setregid", "setreuid", "home",
       IF p = APT THEN "http_proxy" ELSE "cmdline",
       IF p = APT THEN "https_proxy" ELSE "after",
       "getrlimit", "close", "umask", "chdir", "execve" >>

\* Mutation of Order: smart-update handles its command line before HOME
OrderCmdlineFirst(p) ==
    CASE p = APT ->
           << "getpwuid", "home", "http_proxy", "https_proxy", "setgroups",
              "setregid", "setreuid", "getrlimit", "close", "umask", "chdir",
              "execve" >>
      [] p = SMART ->
           << "getpwuid", "cmdline", "after", "home", "setgroups",
              "setregid", "setreuid", "getrlimit", "close", "umask", "chdir",
              "execve" >>
      [] p = SMART_OLD ->
           << "getpwuid", "cmdline", "after", "home", "setregid", "setreuid",
              "setgroups", "getrlimit", "close", "umask", "chdir", "execve" >>

\* Mutation of Order: the newer smart-update keeps the order of the older one
OrderAsIn2004(p) ==
    IF p = APT
    THEN << "getpwuid", "home", "http_proxy", "https_proxy", "setgroups",
            "setregid", "setreuid", "getrlimit", "close", "umask", "chdir",
            "execve" >>
    ELSE << "getpwuid", "home", "cmdline", "after", "setregid", "setreuid",
            "setgroups", "getrlimit", "close", "umask", "chdir", "execve" >>

\* Mutation of Order: the uid is set before the gid
OrderUidFirst(p) ==
    IF p = SMART_OLD
    THEN << "getpwuid", "home", "cmdline", "after", "setreuid", "setregid",
            "setgroups", "getrlimit", "close", "umask", "chdir", "execve" >>
    ELSE << "getpwuid", "home",
            IF p = APT THEN "http_proxy" ELSE "cmdline",
            IF p = APT THEN "https_proxy" ELSE "after",
            "setgroups", "setreuid", "setregid", "getrlimit", "close",
            "umask", "chdir", "execve" >>

Order(p) ==
    CASE p = APT ->
           << "getpwuid", "home", "http_proxy", "https_proxy", "setgroups",
              "setregid", "setreuid", "getrlimit", "close", "umask", "chdir",
              "execve" >>
      [] p = SMART ->
           << "getpwuid", "home", "cmdline", "after", "setgroups",
              "setregid", "setreuid", "getrlimit", "close", "umask", "chdir",
              "execve" >>
      [] p = SMART_OLD ->
           << "getpwuid", "home", "cmdline", "after", "setregid", "setreuid",
              "setgroups", "getrlimit", "close", "umask", "chdir", "execve" >>

\* The statement after statement l
Following(p, l) ==
    LET o == Order(p)
        i == CHOOSE k \in DOMAIN o : o[k] = l
    IN  o[i + 1]

inputVars == <<prog, argv, environ, passwd, nofile_hard, start, prev>>
osVars == <<cred, fds, mask, cwd>>

\* A step that succeeded: on to statement l
Done(call, l) ==
    /\ trace' = Append(trace, [call |-> call, ok |-> TRUE])
    /\ pc' = l
    /\ status' = status

\* Mutation of Fatal: the error path ends the process with status 0
FatalStatusZero(call) ==
    /\ trace' = Append(trace, [call |-> call, ok |-> FALSE])
    /\ pc' = "exit"
    /\ status' = 0

\* A step that failed: the message, then exit(1)
Fatal(call) ==
    /\ trace' = Append(trace, [call |-> call, ok |-> FALSE])
    /\ pc' = "exit"
    /\ status' = 1

\* What the history says of a call
Called(c) == \E i \in DOMAIN trace : trace[i].call = c
Succeeded(c) == \E i \in DOMAIN trace : trace[i].call = c /\ trace[i].ok

\* Mutation of GetPwUid: the record of the account named landscape is taken
GetPwNamLandscape ==
    /\ pc = "getpwuid"
    /\ pwd' = LET hits == { i \in DOMAIN passwd : passwd[i].pw_name = "landscape" }
              IN  IF hits = {} THEN <<>>
                  ELSE <<passwd[CHOOSE i \in hits : \A j \in hits : i <= j]>>
    /\ IF pwd' = <<>> THEN Fatal("getpwuid")
       ELSE Done("getpwuid", Following(prog, "getpwuid"))
    /\ UNCHANGED <<inputVars, osVars, target_envp, target_argv, proxy_arg,
                   interval, rlp, file_max, file>>

\* Mutation of GetPwUid: without a record of the effective uid, the record
\* of the real uid is taken and the run goes on
GetPwUidRealFallback ==
    /\ pc = "getpwuid"
    /\ pwd' = IF getpwuid(passwd, cred.euid) # <<>>
              THEN getpwuid(passwd, cred.euid)
              ELSE getpwuid(passwd, cred.ruid)
    /\ IF pwd' = <<>> THEN Fatal("getpwuid")
       ELSE Done("getpwuid", Following(prog, "getpwuid"))
    /\ UNCHANGED <<inputVars, osVars, target_envp, target_argv, proxy_arg,
                   interval, rlp, file_max, file>>

\* struct passwd *pwd = getpwuid(geteuid()); if (!pwd) exit(1)
GetPwUid ==
    /\ pc = "getpwuid"
    /\ pwd' = getpwuid(passwd, cred.euid)
    /\ IF pwd' = <<>> THEN Fatal("getpwuid")
       ELSE Done("getpwuid", Following(prog, "getpwuid"))
    /\ UNCHANGED <<inputVars, osVars, target_envp, target_argv, proxy_arg,
                   interval, rlp, file_max, file>>

\* Mutation of AsprintfHome: the ambient HOME is used when there is one
AsprintfHomeAmbient ==
    /\ pc = "home"
    /\ \/ /\ target_envp' =
               [target_envp EXCEPT ![1] =
                   "HOME=" \o (IF getenv(environ, "HOME") # NULL
                               THEN getenv(environ, "HOME")
                               ELSE pwd[1].pw_dir)]
          /\ Done("asprintf_home", Following(prog, "home"))
       \/ /\ Fatal("asprintf_home")
          /\ UNCHANGED target_envp
    /\ UNCHANGED <<inputVars, osVars, pwd, target_argv, proxy_arg, interval,
                   rlp, file_max, file>>

\* asprintf(&envp[1], "HOME=%s", pwd->pw_dir)
AsprintfHome ==
    /\ pc = "home"
    /\ \/ /\ target_envp' = [target_envp EXCEPT ![1] = "HOME=" \o pwd[1].pw_dir]
          /\ Done("asprintf_home", Following(prog, "home"))
       \/ /\ Fatal("asprintf_home")
          /\ UNCHANGED target_envp
    /\ UNCHANGED <<inputVars, osVars, pwd, target_argv, proxy_arg, interval,
                   rlp, file_max, file>>

\* Mutation of HttpProxy: proxy_arg is not incremented
HttpProxyNoIncrement ==
    /\ pc = "http_proxy"
    /\ LET http_proxy == getenv(environ, "http_proxy")
       IN  \/ /\ http_proxy = NULL
              /\ proxy_arg' = 2
              /\ pc' = Following(prog, "http_proxy")
              /\ UNCHANGED <<target_envp, trace, status>>
           \/ /\ http_proxy # NULL
              /\ target_envp' =
                   [target_envp EXCEPT ![2] = "http_proxy=" \o http_proxy]
              /\ proxy_arg' = 2
              /\ Done("asprintf_http", Following(prog, "http_proxy"))
           \/ /\ http_proxy # NULL
              /\ proxy_arg' = 2
              /\ Fatal("asprintf_http")
              /\ UNCHANGED target_envp
    /\ UNCHANGED <<inputVars, osVars, pwd, target_argv, interval, rlp,
                   file_max, file>>

\* apt-update: int proxy_arg = 2; http_proxy = getenv("http_proxy"); ...
HttpProxy ==
    /\ pc = "http_proxy"
    /\ LET http_proxy == getenv(environ, "http_proxy")
       IN  \/ /\ http_proxy = NULL
              /\ proxy_arg' = 2
              /\ pc' = Following(prog, "http_proxy")
              /\ UNCHANGED <<target_envp, trace, status>>
           \/ /\ http_proxy # NULL
              /\ target_envp' =
                   [target_envp EXCEPT ![2] = "http_proxy=" \o http_proxy]
              /\ proxy_arg' = 2 + 1
              /\ Done("asprintf_http", Following(prog, "http_proxy"))
           \/ /\ http_proxy # NULL
              /\ proxy_arg' = 2
              /\ Fatal("asprintf_http")
              /\ UNCHANGED target_envp
    /\ UNCHANGED <<inputVars, osVars, pwd, target_argv, interval, rlp,
                   file_max, file>>

\* Mutation of HttpsProxy: the entry always goes to slot 3
HttpsProxyFixedSlot ==
    /\ pc = "https_proxy"
    /\ LET https_proxy == getenv(environ, "https_proxy")
       IN  \/ /\ https_proxy = NULL
              /\ pc' = Following(prog, "https_proxy")
              /\ UNCHANGED <<target_envp, trace, status>>
           \/ /\ https_proxy # NULL
              /\ target_envp' =
                   [target_envp EXCEPT ![3] = "https_proxy=" \o https_proxy]
              /\ Done("asprintf_https", Following(prog, "https_proxy"))
           \/ /\ https_proxy # NULL
              /\ Fatal("asprintf_https")
              /\ UNCHANGED target_envp
    /\ UNCHANGED <<inputVars, osVars, pwd, target_argv, proxy_arg, interval,
                   rlp, file_max, file>>

\* apt-update: https_proxy = getenv("https_proxy"); ...
HttpsProxy ==
    /\ pc = "https_proxy"
    /\ LET https_proxy == getenv(environ, "https_proxy")
       IN  \/ /\ https_proxy = NULL
              /\ pc' = Following(prog, "https_proxy")
              /\ UNCHANGED <<target_envp, trace, status>>
           \/ /\ https_proxy # NULL
              /\ target_envp' =
                   [target_envp EXCEPT ![proxy_arg] = "https_proxy=" \o https_proxy]
              /\ Done("asprintf_https", Following(prog, "https_proxy"))
           \/ /\ https_proxy # NULL
              /\ Fatal("asprintf_https")
              /\ UNCHANGED target_envp
    /\ UNCHANGED <<inputVars, osVars, pwd, target_argv, proxy_arg, interval,
                   rlp, file_max, file>>

\* Mutation of BadInterval: both variants test the end pointer
BadIntervalNoDigits(p, r) == r.end = 0

\* smart-update: the test that rejects the value strtol parsed
\*   2009: if (end == argv[2])      2004: if (interval == 0)
BadInterval(p, r) ==
    IF p = SMART_OLD THEN r.value = LongZero ELSE r.end = 0

\* Mutation of Unsupported: only argc is tested
UnsupportedByCount(av) == Cardinality(DOMAIN av) # 3

\* smart-update: argc != 3 || strcmp(argv[1], "--after") != 0
\* (argv[1] is read only when argc is 3)
Unsupported(av) ==
    IF Cardinality(DOMAIN av) # 3 THEN TRUE ELSE av[1] # AFTER

\* smart-update: if (argc != 1) { ... strtol ... }
Cmdline ==
    /\ pc = "cmdline"
    /\ LET argc == Cardinality(DOMAIN argv)
       IN  \/ /\ argc = 1
              /\ Done("cmdline", Following(prog, "after"))
              /\ UNCHANGED interval
           \/ /\ argc # 1
              /\ Unsupported(argv)
              /\ Fatal("cmdline")
              /\ UNCHANGED interval
           \/ /\ argc # 1
              /\ ~Unsupported(argv)
              /\ LET r == strtol(argv[2])
                 IN  IF BadInterval(prog, r)
                     THEN Fatal("cmdline") /\ UNCHANGED interval
                     ELSE Done("cmdline", "after") /\ interval' = r.value
    /\ UNCHANGED <<inputVars, osVars, pwd, target_envp, target_argv,
                   proxy_arg, rlp, file_max, file>>

\* Mutation of AsprintfAfter: the value is copied from the command line
AsprintfAfterVerbatim ==
    /\ pc = "after"
    /\ \/ /\ target_argv' =
               [target_argv EXCEPT ![2] = "--after=" \o argv[2]]
          /\ Done("asprintf_after", Following(prog, "after"))
       \/ /\ Fatal("asprintf_after")
          /\ UNCHANGED target_argv
    /\ UNCHANGED <<inputVars, osVars, pwd, target_envp, proxy_arg, interval,
                   rlp, file_max, file>>

\* smart-update: asprintf(&smart_argv[2], "--after=%ld", interval)
AsprintfAfter ==
    /\ pc = "after"
    /\ \/ /\ target_argv' =
               [target_argv EXCEPT ![2] = "--after=" \o FormatLong(interval)]
          /\ Done("asprintf_after", Following(prog, "after"))
       \/ /\ Fatal("asprintf_after")
          /\ UNCHANGED target_argv
    /\ UNCHANGED <<inputVars, osVars, pwd, target_envp, proxy_arg, interval,
                   rlp, file_max, file>>

\* Mutation of SetGroups: the call is made and nothing is cleared
SetGroupsKeepsList ==
    /\ pc = "setgroups"
    /\ \/ Done("setgroups", Following(prog, "setgroups"))
       \/ Fatal("setgroups")
    /\ UNCHANGED <<inputVars, osVars, pwd, target_envp, target_argv,
                   proxy_arg, interval, rlp, file_max, file>>

\* setgroups(0, NULL)
SetGroups ==
    /\ pc = "setgroups"
    /\ \/ /\ cred' = [cred EXCEPT !.groups = {}]
          /\ Done("setgroups", Following(prog, "setgroups"))
       \/ /\ Fatal("setgroups")
          /\ UNCHANGED cred
    /\ UNCHANGED <<inputVars, fds, mask, cwd, pwd, target_envp, target_argv,
                   proxy_arg, interval, rlp, file_max, file>>

\* Mutation of SetRegid: the result of setregid is not tested
SetRegidUnchecked ==
    /\ pc = "setregid"
    /\ \/ /\ cred' = [cred EXCEPT !.rgid = pwd[1].pw_gid, !.egid = pwd[1].pw_gid]
          /\ Done("setregid", Following(prog, "setregid"))
       \/ /\ trace' = Append(trace, [call |-> "setregid", ok |-> FALSE])
          /\ pc' = Following(prog, "setregid")
          /\ UNCHANGED <<cred, status>>
    /\ UNCHANGED <<inputVars, fds, mask, cwd, pwd, target_envp, target_argv,
                   proxy_arg, interval, rlp, file_max, file>>

\* setregid(pwd->pw_gid, pwd->pw_gid)
SetRegid ==
    /\ pc = "setregid"
    /\ \/ /\ cred' = [cred EXCEPT !.rgid = pwd[1].pw_gid, !.egid = pwd[1].pw_gid]
          /\ Done("setregid", Following(prog, "setregid"))
       \/ /\ Fatal("setregid")
          /\ UNCHANGED cred
    /\ UNCHANGED <<inputVars, fds, mask, cwd, pwd, target_envp, target_argv,
                   proxy_arg, interval, rlp, file_max, file>>

\* Mutation of SetReuid: seteuid(pwd->pw_uid), the real uid is left alone
SetReuidEffectiveOnly ==
    /\ pc = "setreuid"
    /\ \/ /\ cred' = [cred EXCEPT !.euid = pwd[1].pw_uid]
          /\ Done("setreuid", Following(prog, "setreuid"))
       \/ /\ Fatal("setreuid")
          /\ UNCHANGED cred
    /\ UNCHANGED <<inputVars, fds, mask, cwd, pwd, target_envp, target_argv,
                   proxy_arg, interval, rlp, file_max, file>>

\* Mutation of SetReuid: setreuid(getuid(), getuid()), the caller's uid
SetReuidToCaller ==
    /\ pc = "setreuid"
    /\ \/ /\ cred' = [cred EXCEPT !.ruid = cred.ruid, !.euid = cred.ruid]
          /\ Done("setreuid", Following(prog, "setreuid"))
       \/ /\ Fatal("setreuid")
          /\ UNCHANGED cred
    /\ UNCHANGED <<inputVars, fds, mask, cwd, pwd, target_envp, target_argv,
                   proxy_arg, interval, rlp, file_max, file>>

\* setreuid(pwd->pw_uid, pwd->pw_uid)
SetReuid ==
    /\ pc = "setreuid"
    /\ \/ /\ cred' = [cred EXCEPT !.ruid = pwd[1].pw_uid, !.euid = pwd[1].pw_uid]
          /\ Done("setreuid", Following(prog, "setreuid"))
       \/ /\ Fatal("setreuid")
          /\ UNCHANGED cred
    /\ UNCHANGED <<inputVars, fds, mask, cwd, pwd, target_envp, target_argv,
                   proxy_arg, interval, rlp, file_max, file>>

\* apt-update, smart-update 2009:
\*   if (rlp.rlim_max == RLIM_INFINITY || rlp.rlim_max > 4096) file_max = 4096;
\*   else file_max = rlp.rlim_max;
FileMax(rlim_max) ==
    IF rlim_max = RLIM_INFINITY \/ RlimAbove(rlim_max, FileCeiling)
    THEN FileCeiling
    ELSE RlimToInt(rlim_max)

\* Mutation of GetRlimit: the loop starts at descriptor 0
GetRlimitLoopFromZero ==
    /\ pc = "getrlimit"
    /\ \/ /\ rlp' = [rlim_max |-> nofile_hard]
          /\ file_max' = IF prog = SMART_OLD THEN file_max
                         ELSE FileMax(nofile_hard)
          /\ file' = 0
          /\ Done("getrlimit", Following(prog, "getrlimit"))
       \/ /\ Fatal("getrlimit")
          /\ UNCHANGED <<rlp, file_max, file>>
    /\ UNCHANGED <<inputVars, osVars, pwd, target_envp, target_argv,
                   proxy_arg, interval>>

\* getrlimit(RLIMIT_NOFILE, &rlp), then the loop's bound and file = 3
GetRlimit ==
    /\ pc = "getrlimit"
    /\ \/ /\ rlp' = [rlim_max |-> nofile_hard]
          /\ file_max' = IF prog = SMART_OLD THEN file_max
                         ELSE FileMax(nofile_hard)
          /\ file' = 3
          /\ Done("getrlimit", Following(prog, "getrlimit"))
       \/ /\ Fatal("getrlimit")
          /\ UNCHANGED <<rlp, file_max, file>>
    /\ UNCHANGED <<inputVars, osVars, pwd, target_envp, target_argv,
                   proxy_arg, interval>>

\* The loop's condition: file < file_max; 2004: fd < min(4096, rlp.rlim_max),
\* where min takes ints
CloseBound ==
    IF prog = SMART_OLD THEN min(FileCeiling, RlimToInt(rlp.rlim_max))
    ELSE file_max

\* Mutation of Close: a close that fails is a fatal error
CloseChecked ==
    /\ pc = "close"
    /\ file < CloseBound
    /\ IF file \in fds
       THEN /\ fds' = fds \ {file}
            /\ file' = file + 1
            /\ UNCHANGED <<pc, status, trace>>
       ELSE /\ Fatal("close")
            /\ UNCHANGED <<fds, file>>
    /\ UNCHANGED <<inputVars, cred, mask, cwd, pwd, target_envp, target_argv,
                   proxy_arg, interval, rlp, file_max>>

\* Mutation of Close: the loop variable is not incremented
CloseSameDescriptor ==
    /\ pc = "close"
    /\ file < CloseBound
    /\ fds' = fds \ {file}
    /\ UNCHANGED <<inputVars, cred, mask, cwd, pwd, target_envp, target_argv,
                   proxy_arg, interval, rlp, file_max, file, pc, status, trace>>

\* One iteration: close(file); file++ (the result of close is not read)
Close ==
    /\ pc = "close"
    /\ file < CloseBound
    /\ fds' = fds \ {file}
    /\ file' = file + 1
    /\ UNCHANGED <<inputVars, cred, mask, cwd, pwd, target_envp, target_argv,
                   proxy_arg, interval, rlp, file_max, pc, status, trace>>

\* The loop ends
CloseEnd ==
    /\ pc = "close"
    /\ ~(file < CloseBound)
    /\ pc' = Following(prog, "close")
    /\ UNCHANGED <<inputVars, osVars, pwd, target_envp, target_argv, proxy_arg,
                   interval, rlp, file_max, file, status, trace>>

\* Mutation of Umask: a mask the caller set is kept
UmaskAddsBits ==
    /\ pc = "umask"
    /\ mask' = IF mask = 0 THEN S_IWGRP + S_IWOTH ELSE mask
    /\ Done("umask", Following(prog, "umask"))
    /\ UNCHANGED <<inputVars, cred, fds, cwd, pwd, target_envp, target_argv,
                   proxy_arg, interval, rlp, file_max, file>>

\* umask(S_IWGRP | S_IWOTH)
Umask ==
    /\ pc = "umask"
    /\ mask' = S_IWGRP + S_IWOTH
    /\ Done("umask", Following(prog, "umask"))
    /\ UNCHANGED <<inputVars, cred, fds, cwd, pwd, target_envp, target_argv,
                   proxy_arg, interval, rlp, file_max, file>>

\* Mutation of Chdir: the result of chdir is not tested
ChdirUnchecked ==
    /\ pc = "chdir"
    /\ \/ /\ cwd' = "/"
          /\ Done("chdir", Following(prog, "chdir"))
       \/ /\ trace' = Append(trace, [call |-> "chdir", ok |-> FALSE])
          /\ pc' = Following(prog, "chdir")
          /\ UNCHANGED <<cwd, status>>
    /\ UNCHANGED <<inputVars, cred, fds, mask, pwd, target_envp, target_argv,
                   proxy_arg, interval, rlp, file_max, file>>

\* chdir("/")
Chdir ==
    /\ pc = "chdir"
    /\ \/ /\ cwd' = "/"
          /\ Done("chdir", Following(prog, "chdir"))
       \/ /\ Fatal("chdir")
          /\ UNCHANGED cwd
    /\ UNCHANGED <<inputVars, cred, fds, mask, pwd, target_envp, target_argv,
                   proxy_arg, interval, rlp, file_max, file>>

\* execve(argv[0], argv, envp); on return: perror, return 1
Execve ==
    /\ pc = "execve"
    /\ \/ Done("execve", "replaced")
       \/ Fatal("execve")
    /\ UNCHANGED <<inputVars, osVars, pwd, target_envp, target_argv, proxy_arg,
                   interval, rlp, file_max, file>>

Next ==
    \/ GetPwUid
    \/ AsprintfHome
    \/ HttpProxy
    \/ HttpsProxy
    \/ Cmdline
    \/ AsprintfAfter
    \/ SetGroups
    \/ SetRegid
    \/ SetReuid
    \/ GetRlimit
    \/ Close
    \/ CloseEnd
    \/ Umask
    \/ Chdir
    \/ Execve

Spec == Init /\ [][Next]_vars

\* The process is scheduled until it ends: a statement that can be executed
\* is executed
SpecFair == Spec /\ WF_vars(Next)

---------------------------------------------------------------------------
(* Two runs of the same launcher, one after the other: the first run's     *)
(* inputs and what it passed to execve are kept in prev, and the launcher  *)
(* is started again on other inputs.                                       *)

Rerun ==
    /\ Called("execve")
    /\ prev = NoPrev
    /\ prev' = << [ argv |-> argv, environ |-> environ, passwd |-> passwd,
                    start |-> start,
                    exec_argv |-> UpToNull(target_argv, 0),
                    exec_envp |-> UpToNull(target_envp, 0),
                    cred |-> cred, fds |-> fds ] >>
    /\ \E in \in TwoRunInputs :
         LET s == StartOf(prog, in)
         IN  /\ argv' = s.argv
             /\ environ' = s.environ
             /\ passwd' = s.passwd
             /\ nofile_hard' = s.nofile_hard
             /\ cred' = s.cred
             /\ fds' = s.fds
             /\ mask' = s.mask
             /\ cwd' = s.cwd
             /\ pwd' = s.pwd
             /\ target_envp' = s.target_envp
             /\ target_argv' = s.target_argv
             /\ proxy_arg' = s.proxy_arg
             /\ interval' = s.interval
             /\ rlp' = s.rlp
             /\ file_max' = s.file_max
             /\ file' = s.file
             /\ pc' = s.pc
             /\ status' = s.status
             /\ trace' = s.trace
             /\ start' = s.start
    /\ UNCHANGED prog

InitTwoRuns ==
    \E p \in Progs, in \in TwoRunInputs :
        Launched(StartOf(p, in)) /\ prev = NoPrev

NextTwoRuns == Next \/ Rerun

SpecTwoRuns == InitTwoRuns /\ [][NextTwoRuns]_vars

---------------------------------------------------------------------------
(* Two launchers side by side: when a run has ended, its outcome is kept in *)
(* prev and another launcher is started on the very same inputs.            *)

SideInputs ==
    SmallInputs
    \cup { [DefaultIn EXCEPT !.fds = {0, 1, 2, 3, 4095, 4096},
                              !.nofile_hard = RLIM_INFINITY] }

Beside ==
    /\ pc \in {"exit", "replaced"}
    /\ prev = NoPrev
    /\ prev' = << [ prog |-> prog, trace |-> trace, pc |-> pc,
                    status |-> status, cred |-> cred, fds |-> fds,
                    mask |-> mask, cwd |-> cwd,
                    exec_argv |-> UpToNull(target_argv, 0),
                    exec_envp |-> UpToNull(target_envp, 0) ] >>
    /\ \E p \in Progs \ {prog} :
         /\ prog' = p
         /\ cred' = start.cred
         /\ fds' = start.fds
         /\ mask' = start.mask
         /\ cwd' = start.cwd
         /\ pwd' = <<>>
         /\ target_envp' = InitEnvp(p)
         /\ target_argv' = InitArgv(p)
         /\ proxy_arg' = 0
         /\ interval' = LongZero
         /\ rlp' = [rlim_max |-> Rlim(0)]
         /\ file_max' = 0
         /\ file' = 0
         /\ pc' = "getpwuid"
         /\ status' = -1
         /\ trace' = <<>>
    /\ UNCHANGED <<argv, environ, passwd, nofile_hard, start>>

InitSideBySide ==
    \E p \in Progs, in \in SideInputs :
        Launched(StartOf(p, in)) /\ prev = NoPrev

NextSideBySide == Next \/ Beside

SpecSideBySide == InitSideBySide /\ [][NextSideBySide]_vars

---------------------------------------------------------------------------
(* Properties *)

\* The identity record of the effective uid the process started with
StartRecord == getpwuid(passwd, start.cred.euid)

\* Both halves of the primary identity change have succeeded
DropDone == Succeeded("setregid") /\ Succeeded("setreuid")

\* C1: in every launcher, whenever setreuid is attempted, setgroups has been
\* called before it and has succeeded.
GroupsClearedBeforeUid ==
    \A i \in DOMAIN trace :
        trace[i].call = "setreuid" =>
            \E j \in 1..(i - 1) : trace[j].call = "setgroups" /\ trace[j].ok

\* C2 (as claimed): once setregid and setreuid have succeeded, none of the
\* real/effective uid and gid is 0.
NeverRootAfterDrop ==
    DropDone =>
        /\ cred.ruid # 0
        /\ cred.euid # 0
        /\ cred.rgid # 0
        /\ cred.egid # 0

\* C2 (amended): once setregid and setreuid have succeeded, in every later
\* state the real and effective uid are the effective uid the process started
\* with, and the real and effective gid are the gid of that uid's record.
DropToLookupIdentity ==
    DropDone =>
        /\ StartRecord # <<>>
        /\ cred.ruid = start.cred.euid
        /\ cred.euid = start.cred.euid
        /\ cred.rgid = StartRecord[1].pw_gid
        /\ cred.egid = StartRecord[1].pw_gid

\* C2 witness: the installed case (setuid root, started by uid 1001) has made
\* it to execve, and its real uid has become 0.
InstalledBecomesRoot ==
    /\ start.cred = InstalledCred
    /\ DropDone
    /\ Called("execve")
    /\ cred.ruid = 0

\* C3: whenever execve is called, the real and effective uid and gid are those
\* of the record of the starting effective uid, and no supplementary group is
\* left.
ExecIdentity ==
    Called("execve") =>
        /\ StartRecord # <<>>
        /\ cred.ruid = StartRecord[1].pw_uid
        /\ cred.euid = StartRecord[1].pw_uid
        /\ cred.rgid = StartRecord[1].pw_gid
        /\ cred.egid = StartRecord[1].pw_gid
        /\ cred.groups = {}

\* C3 witness: execve is called by a process that started with supplementary
\* groups and with a real uid and gid other than the record's.
ExecAfterIdentityChange ==
    /\ Called("execve")
    /\ start.cred.groups # {}
    /\ start.cred.ruid # StartRecord[1].pw_uid
    /\ start.cred.rgid # StartRecord[1].pw_gid

\* C4: whenever execve is called, every descriptor >= 3 that was open at
\* process start is closed.
InheritedClosedAtExec ==
    Called("execve") => \A fd \in start.fds : fd >= 3 => fd \notin fds

\* The hard limit is unbounded or above 4096
LargeLimit(l) == l = RLIM_INFINITY \/ RlimAbove(l, 4096)

\* C5: in every launcher, when the hard limit is unbounded or above 4096, the
\* bound of the close loop is 4096, and once the loop is over exactly the
\* descriptors 3..4095 have been closed.
CeilingForLargeLimits ==
    Succeeded("getrlimit") /\ LargeLimit(nofile_hard) =>
        /\ CloseBound = 4096
        /\ pc # "close" => /\ file = 4096
                           /\ fds = start.fds \ (3..4095)

\* The command line is empty (only argv[0])
ShapeEmpty(av) == DOMAIN av = 0..0

\* The command line is --after <value>
ShapeAfter(av) == DOMAIN av = 0..2 /\ av[1] = "--after"

\* C6 (as claimed): in every launcher, on a command line that is neither
\* empty nor --after <value>, no credential call and no execve is made, and
\* the run goes on until it ends in exit status 1.
UsageErrorRejected ==
    ~ShapeEmpty(argv) /\ ~ShapeAfter(argv) =>
        /\ ~Called("setgroups")
        /\ ~Called("setregid")
        /\ ~Called("setreuid")
        /\ ~Called("execve")
        /\ pc = "exit" => status = 1
        /\ pc # "exit" => ENABLED Next

\* C6 (amended): the same, for the two smart-update launchers.
SmartUsageErrorRejected ==
    prog \in SmartProgs => UsageErrorRejected

\* C6 witness: a smart-update launcher has exited on the command-line check
\* of a command line of the wrong shape.
SmartUsageErrorExit ==
    /\ prog \in SmartProgs
    /\ ~ShapeEmpty(argv) /\ ~ShapeAfter(argv)
    /\ pc = "exit"
    /\ trace[Len(trace)] = [call |-> "cmdline", ok |-> FALSE]

\* The key of an environment entry: what precedes its first "="
RECURSIVE FindEq(_, _)
FindEq(e, i) ==
    IF i > Len(e) THEN 0
    ELSE IF Ch(e, i) = "=" THEN i
    ELSE FindEq(e, i + 1)
EnvKey(e) == SubSeq(e, 1, FindEq(e, 1) - 1)

ExecEnvp == UpToNull(target_envp, 0)
ExecArgv == UpToNull(target_argv, 0)

AllowedKeys(p) ==
    IF p = APT THEN {"PATH", "HOME", "http_proxy", "https_proxy"}
    ELSE {"PATH", "HOME"}

\* This run and the previous one agree on the effective uid, the identity
\* database and the ambient http_proxy and https_proxy
SameIdentityAndProxies ==
    /\ prev # NoPrev
    /\ prev[1].start.cred.euid = start.cred.euid
    /\ prev[1].passwd = passwd
    /\ getenv(prev[1].environ, "http_proxy") = getenv(environ, "http_proxy")
    /\ getenv(prev[1].environ, "https_proxy") = getenv(environ, "https_proxy")

\* C7: the keys of the environment passed to execve are among PATH, HOME,
\* http_proxy, https_proxy (PATH, HOME for smart-update), and two runs of the
\* same launcher that agree on the effective uid, the identity database and
\* the ambient proxies pass the same environment, whatever else differs.
EnvFromIdentityAndProxiesOnly ==
    Called("execve") =>
        /\ \A i \in DOMAIN ExecEnvp : EnvKey(ExecEnvp[i]) \in AllowedKeys(prog)
        /\ SameIdentityAndProxies => ExecEnvp = prev[1].exec_envp

\* C7 witness: a second apt-update run reaches execve with the same identity
\* and proxies as the first, a proxy set, and another ambient PATH, HOME and
\* LD_PRELOAD than the first.
SecondRunOtherAmbient ==
    /\ Called("execve")
    /\ prog = APT
    /\ SameIdentityAndProxies
    /\ getenv(environ, "http_proxy") \notin {NULL, ""}
    /\ getenv(environ, "PATH") # getenv(prev[1].environ, "PATH")
    /\ getenv(environ, "HOME") # getenv(prev[1].environ, "HOME")
    /\ getenv(environ, "LD_PRELOAD") # getenv(prev[1].environ, "LD_PRELOAD")

\* C8: the environment apt-update passes to execve is PATH=/bin:/usr/bin,
\* HOME=<pw_dir of the record>, then http_proxy=<value> iff http_proxy is
\* set, then https_proxy=<value> iff https_proxy is set.
AptEnvExact ==
    prog = APT /\ Called("execve") =>
        ExecEnvp =
            << "PATH=/bin:/usr/bin", "HOME=" \o StartRecord[1].pw_dir >>
            \o (IF \E i \in DOMAIN environ : environ[i].name = "http_proxy"
                THEN << "http_proxy=" \o getenv(environ, "http_proxy") >>
                ELSE << >>)
            \o (IF \E i \in DOMAIN environ : environ[i].name = "https_proxy"
                THEN << "https_proxy=" \o getenv(environ, "https_proxy") >>
                ELSE << >>)

\* C8 witness: apt-update calls execve with http_proxy unset and https_proxy
\* set to the empty string, and passes https_proxy= as the third entry.
AptHttpsOnlyEmpty ==
    /\ prog = APT
    /\ Called("execve")
    /\ getenv(environ, "http_proxy") = NULL
    /\ getenv(environ, "https_proxy") = ""
    /\ Len(ExecEnvp) = 3
    /\ ExecEnvp[3] = "https_proxy="

\* <N> of an accepted command line --after <N> that reached execve
ForwardedAfter == prog \in SmartProgs /\ ShapeAfter(argv) /\ Called("execve")

\* C9 (as claimed): the third element of the target argv is --after= followed
\* by the characters of <N> as given.
AfterForwardedVerbatim ==
    ForwardedAfter => target_argv[2] = "--after=" \o argv[2]

\* A canonical decimal integer in the range of long: an optional "-", digits
\* with no leading zero, not -0
Canonical(n) ==
    LET neg == Len(n) > 0 /\ Ch(n, 1) = "-"
        d == IF neg THEN Tail(n) ELSE n
        m == [k \in 1..Len(d) |-> DigitVal(Ch(d, k))]
    IN  /\ Len(d) > 0
        /\ \A k \in 1..Len(d) : IsDigit(Ch(d, k))
        /\ Ch(d, 1) = "0" => (Len(d) = 1 /\ ~neg)
        /\ ~MagGreater(m, IF neg THEN LONG_MIN.mag ELSE LONG_MAX.mag)

\* C9 (amended): the third element of the target argv is --after= followed by
\* the %ld rendering of the long strtol parses from <N>; it is <N> character
\* for character exactly when <N> is a canonical decimal integer in the range
\* of long.
AfterForwardedParsed ==
    ForwardedAfter =>
        /\ target_argv[2] = "--after=" \o FormatLong(strtol(argv[2]).value)
        /\ Canonical(argv[2]) <=> target_argv[2] = "--after=" \o argv[2]
        /\ ExecArgv = <<"/usr/share/smart/smart", "update", target_argv[2]>>

\* C9 witness: --after 007 has reached execve as --after=7.
AfterLeadingZerosDropped ==
    /\ ForwardedAfter
    /\ argv[2] = "007"
    /\ target_argv[2] = "--after=7"

\* The whole of n is an integer as strtol reads one: white space, an
\* optional sign, at least one digit, and nothing after the digits
WellFormedInteger(n) ==
    LET i0 == SkipSpace(n, 1)
        i1 == IF i0 <= Len(n) /\ Ch(n, i0) \in {"+", "-"} THEN i0 + 1 ELSE i0
        i2 == SkipDigits(n, i1)
    IN  i2 > i1 /\ i2 = Len(n) + 1

\* C10: in the smart-update launchers, --after <value> with a value that is
\* not an integer in its entirety never reaches execve and ends in exit
\* status 1.
MalformedIntervalRejected ==
    prog \in SmartProgs /\ ShapeAfter(argv) /\ ~WellFormedInteger(argv[2]) =>
        /\ ~Called("execve")
        /\ pc = "exit" => status = 1

\* The command-line step of this run ended in the error exit
CmdlineRejected ==
    \E i \in DOMAIN trace : trace[i] = [call |-> "cmdline", ok |-> FALSE]

\* C11: on --after <value>, once the command line has been handled, the older
\* smart-update has rejected it (exit status 1, no execve) exactly when the
\* parsed value is 0, and passes --after=300 for 300; the newer one has
\* rejected it exactly when strtol consumed no digit, and passes --after=0
\* for 0.
ZeroIntervalDifference ==
    prog \in SmartProgs /\ ShapeAfter(argv) /\ Called("cmdline") =>
        LET r == strtol(argv[2])
        IN  /\ prog = SMART_OLD => (CmdlineRejected <=> r.value = LongZero)
            /\ prog = SMART => (CmdlineRejected <=> r.end = 0)
            /\ CmdlineRejected =>
                   pc = "exit" /\ status = 1 /\ ~Called("execve")
            /\ Called("execve") /\ argv[2] = "300" =>
                   ExecArgv[3] = "--after=300"
            /\ Called("execve") /\ argv[2] = "0" =>
                   prog = SMART /\ ExecArgv[3] = "--after=0"

\* C11 witness: the newer smart-update has called execve with --after=0 on
\* the command line --after 0.
NewerForwardsZero ==
    /\ prog = SMART
    /\ ShapeAfter(argv)
    /\ argv[2] = "0"
    /\ Called("execve")
    /\ ExecArgv = <<"/usr/share/smart/smart", "update", "--after=0">>

\* C12: when the effective uid has no identity record, execve is never
\* called, the credentials, the open descriptors, the umask and the working
\* directory keep their values of process start, and the lookup ends the run
\* in exit status 1.
NoRecordNoEffects ==
    StartRecord = <<>> =>
        /\ ~Called("execve")
        /\ cred = start.cred
        /\ fds = start.fds
        /\ mask = start.mask
        /\ cwd = start.cwd
        /\ Called("getpwuid") =>
               pc = "exit" /\ status = 1 /\ Len(trace) = 1

\* C12 witness: a launcher started setuid root with supplementary groups and
\* inherited descriptors has exited on the lookup of uid 0.
NoRecordExit ==
    /\ StartRecord = <<>>
    /\ start.cred = InstalledCred
    /\ start.fds \ {0, 1, 2} # {}
    /\ pc = "exit"
    /\ trace = <<[call |-> "getpwuid", ok |-> FALSE]>>

\* The steps whose success a run needs before execve, for its launcher, its
\* command line and its environment
NeededSteps ==
    {"getpwuid", "asprintf_home", "setgroups", "setregid", "setreuid",
     "getrlimit", "chdir"}
    \cup (IF prog \in SmartProgs THEN {"cmdline"} ELSE {})
    \cup (IF prog \in SmartProgs /\ ~ShapeEmpty(argv)
          THEN {"asprintf_after"} ELSE {})
    \cup (IF prog = APT /\ getenv(environ, "http_proxy") # NULL
          THEN {"asprintf_http"} ELSE {})
    \cup (IF prog = APT /\ getenv(environ, "https_proxy") # NULL
          THEN {"asprintf_https"} ELSE {})

\* C13: execve is called only after the lookup, every string construction,
\* the command-line check, setgroups, setregid, setreuid, getrlimit and chdir
\* have succeeded; a step that fails is the last step of its run, which ends
\* there without execve.
FailClosed ==
    /\ Called("execve") => \A c \in NeededSteps : Succeeded(c)
    /\ \A i \in DOMAIN trace :
         ~trace[i].ok =>
             /\ i = Len(trace)
             /\ pc = "exit"
             /\ ~ENABLED Next
             /\ trace[i].call # "execve" => ~Called("execve")

\* C13 witness: setregid has succeeded, setreuid has failed, and the run has
\* ended there.
HalfDroppedExit ==
    /\ Succeeded("setregid")
    /\ trace[Len(trace)] = [call |-> "setreuid", ok |-> FALSE]
    /\ cred.rgid # start.cred.rgid
    /\ pc = "exit"

\* C14: a launcher that has terminated itself has exit status 1; a run ends
\* only in that exit or in the replaced process image, and no status is set
\* before the exit.
ExitStatusOne ==
    /\ pc = "exit" => status = 1
    /\ pc # "exit" => status = -1
    /\ ~ENABLED Next => pc \in {"exit", "replaced"}

\* C14 witness: execve has returned, and main has returned 1.
ExecFailedExit ==
    /\ pc = "exit"
    /\ status = 1
    /\ trace[Len(trace)] = [call |-> "execve", ok |-> FALSE]

\* C15: setreuid is attempted only after setregid has succeeded, and a run in
\* which setregid failed has ended in exit status 1 with the real and
\* effective uid of process start.
GidBeforeUid ==
    \A i \in DOMAIN trace :
        /\ trace[i].call = "setreuid" =>
               \E j \in 1..(i - 1) : trace[j] = [call |-> "setregid", ok |-> TRUE]
        /\ trace[i] = [call |-> "setregid", ok |-> FALSE] =>
               /\ pc = "exit"
               /\ status = 1
               /\ cred.ruid = start.cred.ruid
               /\ cred.euid = start.cred.euid

\* C15 witness: the older smart-update has changed the gid and has then
\* changed the uid.
OlderGidThenUid ==
    /\ prog = SMART_OLD
    /\ Succeeded("setreuid")
    /\ cred.rgid # start.cred.rgid
    /\ cred.ruid # start.cred.ruid

\* The three credential calls have succeeded
CredentialsDone ==
    Succeeded("setgroups") /\ Succeeded("setregid") /\ Succeeded("setreuid")

\* C16: until setgroups, setregid and setreuid have all succeeded, no
\* descriptor has been closed, the limit has not been read, and the umask and
\* the working directory have not been changed; a credential call that fails
\* ends the run in that state.
DropBeforeCleanup ==
    ~CredentialsDone =>
        /\ fds = start.fds
        /\ mask = start.mask
        /\ cwd = start.cwd
        /\ file = 0
        /\ ~Called("getrlimit") /\ ~Called("umask") /\ ~Called("chdir")
        /\ pc \notin {"getrlimit", "close", "umask", "chdir", "execve", "replaced"}
        /\ (\E i \in DOMAIN trace :
              /\ trace[i].call \in {"setgroups", "setregid", "setreuid"}
              /\ ~trace[i].ok) => pc = "exit" /\ status = 1

\* C16 witness: the older smart-update has exited on setgroups, its last
\* credential call, with the inherited descriptors open and the umask and
\* directory of the caller.
LateSetgroupsFailure ==
    /\ prog = SMART_OLD
    /\ pc = "exit"
    /\ trace[Len(trace)] = [call |-> "setgroups", ok |-> FALSE]
    /\ {3, 5} \subseteq fds
    /\ mask # 18
    /\ cwd # "/"

\* The steps every launcher has
CommonCalls ==
    {"getpwuid", "asprintf_home", "setgroups", "setregid", "setreuid",
     "getrlimit", "umask", "chdir", "execve"}

\* The steps of a run that every launcher has, in the order they were made
CommonSteps(t) == SelectSeq(t, LAMBDA e : e.call \in CommonCalls)

\* Two runs met the same outcome of every call they both made
SameOutcomes(t, u) ==
    \A i \in DOMAIN t, j \in DOMAIN u : t[i].call = u[j].call => t[i].ok = u[j].ok

\* No string construction that only one launcher has failed in the run
OwnStringsBuilt(t) ==
    \A i \in DOMAIN t :
        t[i].call \in {"asprintf_http", "asprintf_https", "asprintf_after"}
            => t[i].ok

\* Two launchers have run to their end on the same inputs, with the same
\* outcome of the calls they share
SideBySide ==
    /\ prev # NoPrev
    /\ pc \in {"exit", "replaced"}
    /\ SameOutcomes(prev[1].trace, trace)
    /\ OwnStringsBuilt(prev[1].trace)
    /\ OwnStringsBuilt(trace)

\* C17 (as claimed): any two launchers side by side end alike (both exit or
\* both exec), make the same common steps in the same order, and end in the
\* same credentials and descriptor set.
SameDesign ==
    SideBySide =>
        /\ pc = prev[1].pc
        /\ CommonSteps(trace) = CommonSteps(prev[1].trace)
        /\ cred = prev[1].cred
        /\ fds = prev[1].fds

\* A command line the newer smart-update accepts
SmartAccepts(av) ==
    ShapeEmpty(av) \/ (ShapeAfter(av) /\ strtol(av[2]).end # 0)

\* C17 (amended): apt-update and the newer smart-update side by side, on a
\* command line smart-update accepts, end alike, make the same common steps
\* in the same order, and end in the same credentials, descriptor set, umask
\* and directory; the environment of smart-update is that of apt-update
\* without the proxies.
SameDesignAptNewer ==
    SideBySide /\ {prog, prev[1].prog} = {APT, SMART} /\ SmartAccepts(argv) =>
        /\ pc = prev[1].pc
        /\ status = prev[1].status
        /\ CommonSteps(trace) = CommonSteps(prev[1].trace)
        /\ cred = prev[1].cred
        /\ fds = prev[1].fds
        /\ mask = prev[1].mask
        /\ cwd = prev[1].cwd
        /\ pc = "replaced" =>
             LET a == IF prog = APT THEN ExecEnvp ELSE prev[1].exec_envp
                 b == IF prog = APT THEN prev[1].exec_envp ELSE ExecEnvp
             IN  b = SubSeq(a, 1, 2)

\* C17 witness: apt-update, then the newer smart-update, have both called
\* execve on --after 300 after the same credential change.
AptAndNewerBothExec ==
    /\ prev # NoPrev
    /\ prev[1].prog = APT
    /\ prog = SMART
    /\ ShapeAfter(argv) /\ argv[2] = "300"
    /\ prev[1].pc = "replaced"
    /\ pc = "replaced"
    /\ cred # start.cred
    /\ cred = prev[1].cred

\* The elements of the target argv that no input reaches
FixedArgv(p) ==
    IF p = APT THEN <<"/usr/bin/apt-get", "-q", "update">>
    ELSE <<"/usr/share/smart/smart", "update">>

\* C18: whenever execve is called, the target argv has a NULL inside its
\* array and is the launcher's fixed path and subcommand, followed in
\* smart-update by at most one --after=<integer>; so two runs of a launcher
\* on any command lines and environments agree on everything but that
\* element.
ArgvFixedButInterval ==
    Called("execve") =>
        LET n == Len(FixedArgv(prog))
        IN  /\ \E i \in DOMAIN target_argv : target_argv[i] = NULL
            /\ Len(ExecArgv) >= n
            /\ SubSeq(ExecArgv, 1, n) = FixedArgv(prog)
            /\ prog = APT => Len(ExecArgv) = n
            /\ Len(ExecArgv) <= n + 1
            /\ Len(ExecArgv) = n + 1 =>
                   /\ SubSeq(ExecArgv[n + 1], 1, 8) = "--after="
                   /\ Canonical(SubSeq(ExecArgv[n + 1], 9, Len(ExecArgv[n + 1])))
            /\ prev # NoPrev =>
                   /\ SubSeq(prev[1].exec_argv, 1, n) = SubSeq(ExecArgv, 1, n)
                   /\ prog = APT => prev[1].exec_argv = ExecArgv

\* C18 witness: the newer smart-update has called execve twice, first with
\* an interval and then without one, in different environments.
SecondRunOtherArgv ==
    /\ prev # NoPrev
    /\ prog = SMART
    /\ Called("execve")
    /\ prev[1].argv # argv
    /\ prev[1].environ # environ
    /\ Len(prev[1].exec_argv) = 3
    /\ Len(ExecArgv) = 2

\* The scenario: the system has the landscape account (uid 1001, gid 1001,
\* home /var/lib/landscape), the command line is empty, no proxy is set, and
\* execve has been called
LandscapeScenario ==
    /\ \E i \in DOMAIN passwd : passwd[i] = LandscapeRec
    /\ ShapeEmpty(argv)
    /\ getenv(environ, "http_proxy") = NULL
    /\ getenv(environ, "https_proxy") = NULL
    /\ Called("execve")

\* C19 (as claimed): in the scenario, a launcher started with effective uid 0
\* calls execve with HOME=/var/lib/landscape, as uid 1001 and gid 1001, with
\* the fixed argv.
RootStartBecomesLandscape ==
    LandscapeScenario /\ start.cred.euid = 0 =>
        /\ ExecEnvp = <<"PATH=/bin:/usr/bin", "HOME=/var/lib/landscape">>
        /\ cred.ruid = 1001 /\ cred.euid = 1001
        /\ cred.rgid = 1001 /\ cred.egid = 1001
        /\ ExecArgv = FixedArgv(prog)

\* C19 (amended): in the scenario the identity is that of the effective uid
\* at process start: started with effective uid 1001 the launcher calls
\* execve with HOME=/var/lib/landscape as uid 1001 and gid 1001; started with
\* effective uid 0 it calls execve with the home, uid 0 and gid of the record
\* of uid 0.  The argv is the fixed one.
ScenarioByEffectiveUid ==
    LandscapeScenario =>
        /\ ExecArgv = FixedArgv(prog)
        /\ start.cred.euid = 1001 =>
               /\ ExecEnvp = <<"PATH=/bin:/usr/bin", "HOME=/var/lib/landscape">>
               /\ cred.ruid = 1001 /\ cred.euid = 1001
               /\ cred.rgid = 1001 /\ cred.egid = 1001
        /\ start.cred.euid = 0 =>
               /\ getpwuid(passwd, 0) # <<>>
               /\ ExecEnvp = <<"PATH=/bin:/usr/bin",
                               "HOME=" \o getpwuid(passwd, 0)[1].pw_dir>>
               /\ cred.ruid = 0 /\ cred.euid = 0
               /\ cred.rgid = getpwuid(passwd, 0)[1].pw_gid
               /\ cred.egid = getpwuid(passwd, 0)[1].pw_gid

\* C19 witness: in the scenario, a launcher started setuid root by uid 1001
\* has called execve with HOME=/root as uid 0 and gid 0.
RootStartExecsAsRoot ==
    /\ LandscapeScenario
    /\ start.cred = InstalledCred
    /\ ExecEnvp = <<"PATH=/bin:/usr/bin", "HOME=/root">>
    /\ cred.ruid = 0 /\ cred.euid = 0
    /\ cred.rgid = 0 /\ cred.egid = 0

ListedStep(c) ==
    CASE c = "getpwuid" -> 1
      [] c = "cmdline" -> 2
      [] c \in {"asprintf_home", "asprintf_http", "asprintf_https",
                "asprintf_after"} -> 3
      [] c = "setgroups" -> 4
      [] c \in {"setregid", "setreuid"} -> 5
      [] c = "getrlimit" -> 6
      [] c \in {"umask", "chdir"} -> 7
      [] c = "execve" -> 8

\* The command line is one smart-update rejects
SmartRejects(av) == ~ShapeEmpty(av) /\ (ShapeAfter(av) => strtol(av[2]).end = 0)

\* C21 (as claimed): the calls of a run are made in the order of the listed
\* steps 1 to 8, and a smart-update run on a malformed command line that has
\* exited has reported the usage error.
ListedOrder ==
    /\ \A i, j \in DOMAIN trace :
         i < j => ListedStep(trace[i].call) <= ListedStep(trace[j].call)
    /\ prog \in SmartProgs /\ SmartRejects(argv) /\ pc = "exit" /\ StartRecord # <<>> =>
         trace[Len(trace)] = [call |-> "cmdline", ok |-> FALSE]

\* The calls of each launcher in the order of its source
SourceOrder(p) ==
    CASE p = APT ->
           << "getpwuid", "asprintf_home", "asprintf_http", "asprintf_https",
              "setgroups", "setregid", "setreuid", "getrlimit", "umask",
              "chdir", "execve" >>
      [] p = SMART ->
           << "getpwuid", "asprintf_home", "cmdline", "asprintf_after",
              "setgroups", "setregid", "setreuid", "getrlimit", "umask",
              "chdir", "execve" >>
      [] p = SMART_OLD ->
           << "getpwuid", "asprintf_home", "cmdline", "asprintf_after",
              "setregid", "setreuid", "setgroups", "getrlimit", "umask",
              "chdir", "execve" >>

\* The place of a call in that order
PlaceOf(p, c) == CHOOSE k \in DOMAIN SourceOrder(p) : SourceOrder(p)[k] = c

\* C21 (amended): the calls of a run are made in the one order of the
\* launcher's source, in which HOME is built before the command line is
\* looked at: a usage error is reported only after HOME has been built, and
\* a run in which the construction of HOME failed has ended there, whatever
\* the command line.
SourceOrderKept ==
    /\ \A i \in DOMAIN trace :
         \E k \in DOMAIN SourceOrder(prog) : SourceOrder(prog)[k] = trace[i].call
    /\ \A i, j \in DOMAIN trace :
         i < j => PlaceOf(prog, trace[i].call) < PlaceOf(prog, trace[j].call)
    /\ CmdlineRejected => Succeeded("asprintf_home")
    /\ (\E i \in DOMAIN trace : trace[i] = [call |-> "asprintf_home", ok |-> FALSE])
         => pc = "exit" /\ status = 1 /\ ~Called("cmdline")

\* C21 witness: the newer smart-update, on a command line it rejects, has
\* exited on the construction of HOME.
HomeErrorBeforeUsageError ==
    /\ prog = SMART
    /\ SmartRejects(argv)
    /\ pc = "exit"
    /\ trace[Len(trace)] = [call |-> "asprintf_home", ok |-> FALSE]

\* The HOME entry of an environment passed to execve
HomeOf(envp) == envp[2]

\* C22: the identity is looked up once, by the effective uid of process
\* start; pwd stays that record; HOME, the gid given to setregid and the uid
\* given to setreuid are its fields; and a second run with the same effective
\* uid and database calls execve with the same uid, gid and HOME as the
\* first, whatever command line, real uid and environment it has.
IdentityFromEffectiveUidOnce ==
    /\ Cardinality({i \in DOMAIN trace : trace[i].call = "getpwuid"}) <= 1
    /\ Called("getpwuid") => pwd = StartRecord
    /\ Succeeded("asprintf_home") =>
           target_envp[1] = "HOME=" \o StartRecord[1].pw_dir
    /\ Succeeded("setregid") =>
           cred.rgid = StartRecord[1].pw_gid /\ cred.egid = StartRecord[1].pw_gid
    /\ Succeeded("setreuid") =>
           cred.ruid = StartRecord[1].pw_uid /\ cred.euid = StartRecord[1].pw_uid
    /\ (/\ Called("execve")
        /\ prev # NoPrev
        /\ prev[1].start.cred.euid = start.cred.euid
        /\ prev[1].passwd = passwd) =>
           /\ cred.ruid = prev[1].cred.ruid /\ cred.euid = prev[1].cred.euid
           /\ cred.rgid = prev[1].cred.rgid /\ cred.egid = prev[1].cred.egid
           /\ HomeOf(ExecEnvp) = HomeOf(prev[1].exec_envp)

\* C22 witness: a second run has called execve with the effective uid and
\* database of the first, another real uid, and USER, LOGNAME and HOME of
\* another account in its environment.
SecondRunOtherCaller ==
    /\ Called("execve")
    /\ prev # NoPrev
    /\ prev[1].start.cred.euid = start.cred.euid
    /\ prev[1].passwd = passwd
    /\ prev[1].start.cred.ruid # start.cred.ruid
    /\ environ = LoginEnv
    /\ prev[1].environ # environ

\* The run has ended: exit, or the process image replaced
Ended == pc \in {"exit", "replaced"}

\* No call is made twice, the loop has made at most 4093 close calls (one
\* for each value of file from 3 on), and nothing runs after the end
RunBounded ==
    /\ \A i, j \in DOMAIN trace : trace[i].call = trace[j].call => i = j
    /\ file <= 4096
    /\ pc = "close" => file >= 3 /\ file - 3 <= 4093
    /\ Ended => ~ENABLED Next
    /\ pc = "replaced" <=> Succeeded("execve")

\* C23: every run ends, in exit status 1 or in one execve, after finitely
\* many steps in which no call is repeated and at most 4093 descriptors are
\* closed, and no step follows a successful execve.
RunTerminates ==
    /\ []RunBounded
    /\ <>Ended
    /\ [](pc = "exit" => status = 1)

\* C23 witness: a run has ended in execve after 4093 close calls.
ExecAfterLongestLoop ==
    /\ pc = "replaced"
    /\ file = 4096
    /\ 4095 \in start.fds
    /\ 4095 \notin fds

\* String s begins with string p
HasPrefix(s, p) ==
    IF Len(s) < Len(p) THEN FALSE ELSE SubSeq(s, 1, Len(p)) = p

\* The slots of an array that hold a string
Filled(a) == { i \in DOMAIN a : a[i] # NULL }

\* C24: in apt-update the environment array always has its five slots, at
\* most four of them filled, the filled ones a prefix, so that the slot
\* after the last entry is NULL; https_proxy is written to slot 2 when
\* http_proxy is unset and to slot 3 when it is set, next to http_proxy.
AptEnvpWellFormed ==
    prog = APT =>
        /\ DOMAIN target_envp = 0..4
        /\ Cardinality(Filled(target_envp)) <= 4
        /\ Filled(target_envp) = 0..(Cardinality(Filled(target_envp)) - 1)
        /\ target_envp[Cardinality(Filled(target_envp))] = NULL
        /\ proxy_arg \in {0, 2, 3}
        /\ Succeeded("asprintf_https") =>
             LET slot == IF getenv(environ, "http_proxy") = NULL THEN 2 ELSE 3
             IN  /\ HasPrefix(target_envp[slot], "https_proxy=")
                 /\ slot = 3 => HasPrefix(target_envp[2], "http_proxy=")

\* C24 witness: apt-update has called execve with both proxies set: four
\* entries, and NULL in the fifth slot.
AptEnvpFull ==
    /\ prog = APT
    /\ Called("execve")
    /\ Filled(target_envp) = 0..3
    /\ target_envp[4] = NULL
    /\ HasPrefix(target_envp[3], "https_proxy=")

\* The calls that build a string or check the command line
PreparationCalls ==
    {"asprintf_home", "asprintf_http", "asprintf_https", "asprintf_after",
     "cmdline"}

\* C25: every string construction and the command-line check are made before
\* the first of setgroups, setregid and setreuid, so whenever one of them
\* fails the credentials, the descriptors, the umask and the directory are
\* those of process start.
PreparationBeforeCredentials ==
    /\ \A i, j \in DOMAIN trace :
         /\ trace[i].call \in PreparationCalls
         /\ trace[j].call \in {"setgroups", "setregid", "setreuid"}
         => i < j
    /\ Called("setgroups") \/ Called("setregid") \/ Called("setreuid") =>
         \A c \in NeededSteps \cap PreparationCalls : Succeeded(c)
    /\ (\E i \in DOMAIN trace : trace[i].call \in PreparationCalls /\ ~trace[i].ok)
         => /\ pc = "exit"
            /\ cred = start.cred
            /\ fds = start.fds
            /\ mask = start.mask
            /\ cwd = start.cwd

\* C25 witness: the older smart-update, started setuid root, has exited on
\* the construction of the --after= argument.
AfterArgumentFailure ==
    /\ prog = SMART_OLD
    /\ start.cred = InstalledCred
    /\ pc = "exit"
    /\ trace[Len(trace)] = [call |-> "asprintf_after", ok |-> FALSE]
    /\ cred = start.cred

\* The first descriptor number the loop does not reach
LoopEnd == IF CloseBound > 3 THEN CloseBound ELSE 3

\* While the loop runs, the numbers from 3 to file - 1 have been tried and
\* are closed; after it, all the numbers from 3 to the bound - 1; a close
\* never ends the run
LoopProgress ==
    Succeeded("getrlimit") =>
        /\ ~Called("close")
        /\ pc = "close" =>
             /\ file \in 3..LoopEnd
             /\ fds = start.fds \ (3..(file - 1))
        /\ pc # "close" =>
             /\ file = LoopEnd
             /\ fds = start.fds \ (3..(LoopEnd - 1))

\* C26: the loop tries every descriptor number from 3 to its bound once, in
\* increasing order, whether the number is open or not: each iteration goes
\* from file to file + 1 and leaves file closed, and no close ends the run
\* or the loop.
CloseIgnoresResult ==
    /\ []LoopProgress
    /\ [][pc = "close" /\ file < CloseBound =>
            /\ pc' = "close"
            /\ file' = file + 1
            /\ fds' = fds \ {file}]_vars

\* C26 witness: a launcher started with descriptor 5 open and 3 and 4 not
\* open has gone through the loop and closed 5.
LoopPassedGap ==
    /\ Called("umask")
    /\ 5 \in start.fds
    /\ 3 \notin start.fds
    /\ 4 \notin start.fds
    /\ 5 \notin fds

\* C27: at every point of a run the open descriptors are among those open at
\* process start, and descriptors 0, 1 and 2 are open exactly when they were
\* open at start.
StandardStreamsKept ==
    /\ fds \subseteq start.fds
    /\ fds \cap {0, 1, 2} = start.fds \cap {0, 1, 2}

\* C27 witness: a launcher started without descriptor 0 has closed an
\* inherited descriptor and has called execve with 0 still not open and 1
\* and 2 open.
ExecWithoutStdin ==
    /\ Called("execve")
    /\ 0 \notin start.fds
    /\ 0 \notin fds
    /\ {1, 2} \subseteq fds
    /\ fds # start.fds

\* The decimal digits of n after its optional "-", as a magnitude; n is a
\* string of digits with an optional "-"
MagnitudeOf(n) ==
    LET d == IF Ch(n, 1) = "-" THEN Tail(n) ELSE n
    IN  StripZeros([k \in 1..Len(d) |-> DigitVal(Ch(d, k))])

\* n is a decimal integer above the largest long
AboveLong(n) ==
    /\ Len(n) > 0
    /\ \A k \in 1..Len(n) : IsDigit(Ch(n, k))
    /\ MagGreater(MagnitudeOf(n), <<9,2,2,3,3,7,2,0,3,6,8,5,4,7,7,5,8,0,7>>)

\* n is a decimal integer below the smallest long
BelowLong(n) ==
    /\ Len(n) > 1
    /\ Ch(n, 1) = "-"
    /\ \A k \in 2..Len(n) : IsDigit(Ch(n, k))
    /\ MagGreater(MagnitudeOf(n), <<9,2,2,3,3,7,2,0,3,6,8,5,4,7,7,5,8,0,8>>)

\* C28: in smart-update the forwarded interval is a decimal integer in the
\* range of long; a value above that range is not rejected and is forwarded
\* as --after=9223372036854775807, one below it as
\* --after=-9223372036854775808.
IntervalSaturates ==
    prog \in SmartProgs /\ ShapeAfter(argv) =>
        /\ Succeeded("asprintf_after") =>
             /\ HasPrefix(target_argv[2], "--after=")
             /\ Canonical(SubSeq(target_argv[2], 9, Len(target_argv[2])))
        /\ AboveLong(argv[2]) =>
             /\ ~CmdlineRejected
             /\ Succeeded("asprintf_after") =>
                    target_argv[2] = "--after=9223372036854775807"
        /\ BelowLong(argv[2]) =>
             /\ ~CmdlineRejected
             /\ Succeeded("asprintf_after") =>
                    target_argv[2] = "--after=-9223372036854775808"

\* C28 witness: --after -99999999999999999999 has reached execve as the
\* smallest long.
BelowRangeForwarded ==
    /\ ForwardedAfter
    /\ argv[2] = "-99999999999999999999"
    /\ ExecArgv[3] = "--after=-9223372036854775808"

====
